---- MODULE Spec2Model ----
(***************************************************************************)
(* The conversation session of src/components/ChatInterface.tsx together   *)
(* with the persona registry of src/lib/personas.ts.                       *)
(*                                                                         *)
(* A JavaScript string is a sequence of characters; a literal of the       *)
(* source that the model never looks into is the one-element sequence      *)
(* Str("...").  The state variables are the component's useState cells,    *)
(* the browser's localStorage entry, the fetch calls in flight and the     *)
(* toast last shown, plus history variables that record what the handlers  *)
(* did (calls, outcome, sent).                                             *)
(***************************************************************************)
EXTENDS Integers, Sequences, FiniteSets, TLC

VARIABLES
    sid,              \* which mounted instance of ChatInterface is live (0: none yet)
    persona,          \* index in personas of the persona prop (0: none yet)
    messages,         \* useState<Message[]>
    input,            \* useState("")
    isLoading,        \* useState(false)
    apiKey,           \* useState("")
    showApiKeyInput,  \* useState(true)
    localStorage,     \* localStorage['openai_api_key'], NoItem when absent
    inflight,         \* fetch calls issued and not yet settled
    toast,            \* the toast last shown
    calls,            \* history: number of handleSubmit invocations so far
    outcome,          \* history: what the last step of handleSubmit did (in the live instance)
    sent,             \* history: the requests of the live instance, oldest first
    log               \* history: the outcomes in the live instance, oldest first

vars == <<sid, persona, messages, input, isLoading, apiKey, showApiKeyInput,
          localStorage, inflight, toast, calls, outcome, sent, log>>

-----------------------------------------------------------------------------
(* Bounds *)

MaxCalls == 2
MaxSessions == 2

-----------------------------------------------------------------------------
(* Strings *)

Str(s) == <<s>>

EmptyString == <<>>

\* the value of a property that an object does not have
undefined == <<"<undefined>">>

WhiteSpace == {" ", "\n", "\t"}

RECURSIVE TrimStart(_)
TrimStart(s) ==
    IF s = <<>> THEN <<>>
    ELSE IF Head(s) \in WhiteSpace THEN TrimStart(Tail(s))
    ELSE s

RECURSIVE TrimEnd(_)
TrimEnd(s) ==
    IF s = <<>> THEN <<>>
    ELSE IF s[Len(s)] \in WhiteSpace THEN TrimEnd(SubSeq(s, 1, Len(s) - 1))
    ELSE s

\* String.prototype.trim
trim(s) == TrimEnd(TrimStart(s))

\* JavaScript truthiness of a string
Truthy(s) == s # EmptyString

\* what the user types in the textarea
TypedTexts == {<<>>, <<" ">>, <<"a">>, <<" ", "b", "\n">>}

\* what the user types in the key field
TypedKeys == {<<>>, <<" ">>, <<"s", "k">>}

-----------------------------------------------------------------------------
(* Persona registry *)

\* the persona record of the file that exports hooksmith on its own
hooksmith ==
    [id |-> "hooksmith",
     prompt |-> Str("You are a viral marketing strategist and copywriting expert ..."),
     initialQuestion |-> Str("What would you like to create hooks for? Let me know about your target audience, desired outcome, and preferred platforms (Instagram, TikTok, YouTube, or Twitter/X).")]

personasWithHooksmithTwice == <<
    [id |-> "content-alchemist",
     prompt |-> Str("Act as a seasoned content strategist ..."),
     initialQuestion |-> Str("What are the most pressing challenges or desires of your target audience?")],
    [id |-> "pitch-polisher",
     prompt |-> Str("Act as an expert sales consultant ..."),
     initialQuestion |-> Str("What pain points or needs are your target audience most focused on?")],
    [id |-> "hooksmith",
     prompt |-> Str("Act as a creative consultant and expert in direct-response marketing ..."),
     initialQuestion |-> Str("What emotions do you want to evoke with your hooks (e.g., curiosity, excitement, urgency)?")],
    [id |-> "dream-client",
     prompt |-> Str("Act as a marketing psychologist and strategist ..."),
     initialQuestion |-> Str("What are your audience's biggest frustrations or aspirations?")],
    [id |-> "authority-amplifier",
     prompt |-> Str("Act as an authority-building consultant ..."),
     initialQuestion |-> Str("What specific expertise or experiences set you apart in your field?")],
    hooksmith
    >>

\* export const personas: PersonaType[] = [ ... ]
personas == <<
    [id |-> "content-alchemist",
     prompt |-> Str("Act as a seasoned content strategist ..."),
     initialQuestion |-> Str("What are the most pressing challenges or desires of your target audience?")],
    [id |-> "pitch-polisher",
     prompt |-> Str("Act as an expert sales consultant ..."),
     initialQuestion |-> Str("What pain points or needs are your target audience most focused on?")],
    [id |-> "hooksmith",
     prompt |-> Str("Act as a creative consultant and expert in direct-response marketing ..."),
     initialQuestion |-> Str("What emotions do you want to evoke with your hooks (e.g., curiosity, excitement, urgency)?")],
    [id |-> "dream-client",
     prompt |-> Str("Act as a marketing psychologist and strategist ..."),
     initialQuestion |-> Str("What are your audience's biggest frustrations or aspirations?")],
    [id |-> "authority-amplifier",
     prompt |-> Str("Act as an authority-building consultant ..."),
     initialQuestion |-> Str("What specific expertise or experiences set you apart in your field?")]
    >>

PersonaIds == 1..Len(personas)

-----------------------------------------------------------------------------
(* Messages *)

Message(role, content) == [role |-> role, content |-> content]

InitialMessagesPrompt(p) == << Message("assistant", personas[p].prompt) >>

\* useState<Message[]>([{ role: "assistant", content: persona.initialQuestion }])
InitialMessages(p) == << Message("assistant", personas[p].initialQuestion) >>

RequestMessagesNoHistory(p, msgs, userMessage) ==
    << Message("system", personas[p].prompt), userMessage >>

RequestMessagesNoOpening(p, msgs, userMessage) ==
    << Message("system", personas[p].prompt) >> \o Tail(msgs) \o << userMessage >>

\* messages: [{role: "system", content: persona.prompt}, ...messages, userMessage]
RequestMessages(p, msgs, userMessage) ==
    << Message("system", personas[p].prompt) >> \o msgs \o << userMessage >>

-----------------------------------------------------------------------------
(* The completion service, seen from the fetch call *)

NoItem == <<"<null>">>

ReplyTexts == {Str("Hi there"), Str("ok")}

UpstreamErrorMessages == {Str("invalid key")}

ReplyBody(r) == [choices |-> << [message |-> [role |-> "assistant", content |-> r]] >>]

\* bodies of 2xx responses, as parsed by response.json()
OkBodies ==
    {ReplyBody(r) : r \in ReplyTexts}
    \cup {[choices |-> << [message |-> [role |-> "assistant"]] >>],
          [choices |-> << [index |-> 0] >>],
          [choices |-> << >>],
          [id |-> "chatcmpl"]}

ErrorBody(m) == [error |-> [message |-> m, type |-> "invalid_request_error"]]

\* bodies of non-2xx responses, as parsed by response.json()
ErrorBodies ==
    {ErrorBody(m) : m \in UpstreamErrorMessages}
    \cup {[error |-> [message |-> EmptyString]],
          [error |-> [type |-> "server_error"]],
          [detail |-> "Bad Gateway"]}

NoBody == [none |-> TRUE]

\* how a fetch call settles: it rejects (network failure), or it resolves to a
\* response with a status and a body that response.json() parses or rejects
Rejected == [settled |-> "rejected", ok |-> FALSE, parses |-> FALSE, data |-> NoBody]
OkResponse(b) == [settled |-> "resolved", ok |-> TRUE, parses |-> TRUE, data |-> b]
ErrorResponse(b) == [settled |-> "resolved", ok |-> FALSE, parses |-> TRUE, data |-> b]
NotJson(o) == [settled |-> "resolved", ok |-> o, parses |-> FALSE, data |-> NoBody]

Responses ==
    {Rejected}
    \cup {OkResponse(b) : b \in OkBodies}
    \cup {ErrorResponse(b) : b \in ErrorBodies}
    \cup {NotJson(o) : o \in BOOLEAN}

NoResponse == [settled |-> "none", ok |-> FALSE, parses |-> FALSE, data |-> NoBody]

Has(obj, key) == key \in DOMAIN obj

\* messages of the errors the runtime throws
FetchFailedMessage == Str("Failed to fetch")
JsonSyntaxErrorMessage == Str("Unexpected token < in JSON at position 0")
TypeErrorMessage == Str("Cannot read properties of undefined")

Threw(m) == [threw |-> TRUE, value |-> m]
Returned(v) == [threw |-> FALSE, value |-> v]

UpstreamMessageDropped(errorData) == Str("Failed to get response")

\* errorData.error?.message || 'Failed to get response'
UpstreamMessage(errorData) ==
    IF Has(errorData, "error") /\ Has(errorData.error, "message")
       /\ Truthy(errorData.error.message)
    THEN errorData.error.message
    ELSE Str("Failed to get response")

ReplyContentRole(data) ==
    IF ~Has(data, "choices") THEN Threw(TypeErrorMessage)
    ELSE IF Len(data.choices) = 0 THEN Threw(TypeErrorMessage)
    ELSE IF ~Has(data.choices[1], "message") THEN Threw(TypeErrorMessage)
    ELSE Returned(Str(data.choices[1].message.role))

\* data.choices[0].message.content
ReplyContent(data) ==
    IF ~Has(data, "choices") THEN Threw(TypeErrorMessage)
    ELSE IF Len(data.choices) = 0 THEN Threw(TypeErrorMessage)
    ELSE IF ~Has(data.choices[1], "message") THEN Threw(TypeErrorMessage)
    ELSE IF ~Has(data.choices[1].message, "content") THEN Returned(undefined)
    ELSE Returned(data.choices[1].message.content)

\* the body of the try block after the fetch call: what it throws, or the
\* content of the assistant message it builds
TryBlock(resp) ==
    IF resp.settled = "rejected" THEN Threw(FetchFailedMessage)
    ELSE IF ~resp.parses THEN Threw(JsonSyntaxErrorMessage)
    ELSE IF ~resp.ok THEN Threw(UpstreamMessage(resp.data))
    ELSE ReplyContent(resp.data)

-----------------------------------------------------------------------------
(* The component *)

NoToast == [level |-> "none", message |-> EmptyString]
Toast(level, m) == [level |-> level, message |-> m]

\* history: the step of handleSubmit taken last: the invocation and the
\* instance it belongs to, what it came to, the text and the transcript the
\* invocation started from, and the response it resumed with
NoOutcome == [call |-> 0, session |-> 0, kind |-> "none", text |-> EmptyString,
              before |-> <<>>, response |-> NoResponse]
Outcome(call, session, kind, text, before, resp) ==
    [call |-> call, session |-> session, kind |-> kind, text |-> text,
     before |-> before, response |-> resp]

\* a fetch call: the JSON body's messages and the bearer token; and (history)
\* the invocation and the instance that issued it, and the text and the
\* transcript the invocation started from
Request(call, session, msgs, key, text, before) ==
    [call |-> call, session |-> session, messages |-> msgs, bearer |-> key,
     text |-> text, before |-> before]

InputBlankNoTrim(text) == ~Truthy(text)

\* if (!input.trim()) return;
InputBlank(text) == ~Truthy(trim(text))

NoCredentialUnchecked(key) == FALSE

\* if (!apiKey) { ... return; }
NoCredential(key) == ~Truthy(key)

\* the chat form is rendered unless the key form is (line 96)
ChatFormRendered == sid # 0 /\ ~showApiKeyInput
KeyFormRendered == sid # 0 /\ showApiKeyInput

SendDisabledOnBlankOnly == ~Truthy(trim(input))

\* <Button type="submit" disabled={isLoading || !input.trim()}>
SendDisabled == isLoading \/ ~Truthy(trim(input))

StillInFlightRetried(r, threw) == IF threw THEN inflight ELSE inflight \ {r}

\* the try block awaits the fetch call once and nothing issues it again
StillInFlight(r, threw) == inflight \ {r}

AfterReplyPrepended(prev, closure, assistantMessage) == << assistantMessage >> \o prev

AfterReplyFromClosure(prev, closure, assistantMessage) == Append(closure, assistantMessage)

\* setMessages(prev => [...prev, assistantMessage]): prev is the state at the
\* time of the update, closure the messages the handler was created with
AfterReply(prev, closure, assistantMessage) == Append(prev, assistantMessage)

CatchToastOmitted(m) == toast

\* catch (error) { ...; toast.error(error instanceof Error ? error.message : "...") }
\* (whatever the try block throws is an Error: m is its message)
CatchToast(m) == Toast("error", m)

FinallyOfAnyInstance(threw, live) == FALSE

FinallyOnSuccessOnly(threw, live) == IF live /\ ~threw THEN FALSE ELSE isLoading

\* finally { setIsLoading(false); }  (a setter of an unmounted instance does nothing)
Finally(threw, live) == IF live THEN FALSE ELSE isLoading

\* <Button type="submit" disabled={!apiKey.trim()}>
SaveDisabled == ~Truthy(trim(apiKey))

Init ==
    /\ sid = 0
    /\ persona = 0
    /\ messages = <<>>
    /\ input = EmptyString
    /\ isLoading = FALSE
    /\ apiKey = EmptyString
    /\ showApiKeyInput = TRUE
    /\ localStorage \in {NoItem, <<"s", "k">>}
    /\ inflight = {}
    /\ toast = NoToast
    /\ calls = 0
    /\ outcome = NoOutcome
    /\ sent = <<>>
    /\ log = <<>>

\* ChatInterface is mounted with a persona: the useState initialisers of
\* lines 19-25 and the load of the saved key of lines 88-94
ChatInterface(p) ==
    /\ sid < MaxSessions
    /\ sid' = sid + 1
    /\ persona' = p
    /\ messages' = InitialMessages(p)
    /\ input' = EmptyString
    /\ isLoading' = FALSE
    /\ IF localStorage # NoItem /\ Truthy(localStorage)
       THEN apiKey' = localStorage /\ showApiKeyInput' = FALSE
       ELSE apiKey' = EmptyString /\ showApiKeyInput' = TRUE
    /\ outcome' = NoOutcome
    /\ sent' = <<>>
    /\ log' = <<>>
    /\ UNCHANGED <<localStorage, inflight, toast, calls>>

\* onChange={(e) => setApiKey(e.target.value)}
setApiKey(v) ==
    /\ apiKey' = v
    /\ UNCHANGED <<sid, persona, messages, input, isLoading, showApiKeyInput,
                   localStorage, inflight, toast, calls, outcome, sent, log>>

\* onChange={(e) => setInput(e.target.value)}
setInput(v) ==
    /\ input' = v
    /\ UNCHANGED <<sid, persona, messages, isLoading, apiKey, showApiKeyInput,
                   localStorage, inflight, toast, calls, outcome, sent, log>>

handleApiKeySubmitNotStored ==
    /\ IF Truthy(trim(apiKey))
       THEN /\ showApiKeyInput' = FALSE
            /\ toast' = Toast("success", Str("API key saved!"))
            /\ UNCHANGED localStorage
       ELSE UNCHANGED <<localStorage, showApiKeyInput, toast>>
    /\ UNCHANGED <<sid, persona, messages, input, isLoading, apiKey, inflight,
                   calls, outcome, sent, log>>

handleApiKeySubmit ==
    /\ IF Truthy(trim(apiKey))
       THEN /\ localStorage' = apiKey
            /\ showApiKeyInput' = FALSE
            /\ toast' = Toast("success", Str("API key saved!"))
       ELSE UNCHANGED <<localStorage, showApiKeyInput, toast>>
    /\ UNCHANGED <<sid, persona, messages, input, isLoading, apiKey, inflight,
                   calls, outcome, sent, log>>

\* handleSubmit up to the fetch call (lines 27-56)
handleSubmit ==
    /\ calls < MaxCalls
    /\ calls' = calls + 1
    /\ IF InputBlank(input)
       THEN /\ outcome' = Outcome(calls', sid, "ValidationError", input, messages, NoResponse)
            /\ UNCHANGED <<messages, input, isLoading, inflight, toast, sent>>
       ELSE IF NoCredential(apiKey)
       THEN /\ toast' = Toast("error", Str("Please enter your OpenAI API key first"))
            /\ outcome' = Outcome(calls', sid, "MissingCredentialError", input, messages, NoResponse)
            /\ UNCHANGED <<messages, input, isLoading, inflight, sent>>
       ELSE LET userMessage == Message("user", input)
                request == Request(calls', sid,
                                   RequestMessages(persona, messages, userMessage),
                                   apiKey, input, messages)
            IN /\ messages' = Append(messages, userMessage)
               /\ input' = EmptyString
               /\ isLoading' = TRUE
               /\ inflight' = inflight \cup {request}
               /\ sent' = Append(sent, request)
               /\ outcome' = Outcome(calls', sid, "accepted", input, messages, NoResponse)
               /\ UNCHANGED toast
    /\ log' = Append(log, outcome'.kind)
    /\ UNCHANGED <<sid, persona, apiKey, showApiKeyInput, localStorage>>

\* the fetch call of request r settles with resp and handleSubmit resumes
\* (lines 58-75); the state setters of an unmounted instance do nothing
Settle(r, resp) ==
    LET result == TryBlock(resp)
        live == r.session = sid
    IN /\ inflight' = StillInFlight(r, result.threw)
       /\ IF result.threw
          THEN /\ toast' = CatchToast(result.value)
               /\ outcome' = IF live
                             THEN Outcome(r.call, r.session, "RequestError", r.text, r.before, resp)
                             ELSE NoOutcome
               /\ UNCHANGED messages
          ELSE /\ messages' = IF live
                              THEN AfterReply(messages, r.before,
                                              Message("assistant", result.value))
                              ELSE messages
               /\ outcome' = IF live
                             THEN Outcome(r.call, r.session, "success", r.text, r.before, resp)
                             ELSE NoOutcome
               /\ UNCHANGED toast
       /\ isLoading' = Finally(result.threw, live)
       /\ log' = IF live THEN Append(log, outcome'.kind) ELSE log
       /\ UNCHANGED <<sid, persona, input, apiKey, showApiKeyInput, localStorage,
                      calls, sent>>

-----------------------------------------------------------------------------
(* Spec: the handlers are driven through the rendered view, so an event     *)
(* reaches a handler only from an element that is rendered and enabled.     *)

Mount == \E p \in PersonaIds : ChatInterface(p)

TypeApiKey == KeyFormRendered /\ \E v \in TypedKeys : setApiKey(v)

ClickSave == KeyFormRendered /\ ~SaveDisabled /\ handleApiKeySubmit

TypeInput == ChatFormRendered /\ \E v \in TypedTexts : setInput(v)

ClickSend == ChatFormRendered /\ ~SendDisabled /\ handleSubmit

Respond == \E r \in inflight : \E resp \in Responses : Settle(r, resp)

Next == Mount \/ TypeApiKey \/ ClickSave \/ TypeInput \/ ClickSend \/ Respond

Spec == Init /\ [][Next]_vars

(* SpecFair: the rendered view again, with a transport that settles every   *)
(* fetch call in the end (the browser's fetch resolves or rejects; the      *)
(* component sets no timer), in one of the four ways a request can end.     *)

\* a reply, a non-2xx response, a malformed 2xx body, a network failure
Completions ==
    {OkResponse(ReplyBody(Str("ok"))),
     ErrorResponse([detail |-> "Bad Gateway"]),
     OkResponse([choices |-> << >>]),
     Rejected}

Complete == \E r \in inflight : \E resp \in Completions : Settle(r, resp)

NextFair == Mount \/ TypeApiKey \/ ClickSave \/ TypeInput \/ ClickSend \/ Complete

SpecFair == Init /\ [][NextFair]_vars /\ WF_vars(Complete)

(* SpecHandlers: each handler is invoked on its own, whatever the view      *)
(* renders or enables (a submit event dispatched on the form, a harness     *)
(* calling the handler).                                                    *)

\* the values the setters are called with
GivenKeys == {<<>>, <<"s", "k">>}
GivenTexts == {<<>>, <<" ">>, <<"a">>}

CallSetApiKey == sid # 0 /\ \E v \in GivenKeys : setApiKey(v)

CallHandleApiKeySubmit == sid # 0 /\ handleApiKeySubmit

CallSetInput == sid # 0 /\ \E v \in GivenTexts : setInput(v)

CallHandleSubmit == sid # 0 /\ handleSubmit

\* one reply and one upstream error are enough to tell the handlers apart
BriefResponses ==
    {resp \in Responses :
        /\ resp.parses
        /\ resp.data \in {[choices |-> << [message |-> [role |-> "assistant", content |-> Str("ok")]] >>],
                          [error |-> [type |-> "server_error"]]}}

RespondBriefly == \E r \in inflight : \E resp \in BriefResponses : Settle(r, resp)

NextHandlers ==
    Mount \/ CallSetApiKey \/ CallHandleApiKeySubmit \/ CallSetInput
    \/ CallHandleSubmit \/ RespondBriefly

SpecHandlers == Init /\ [][NextHandlers]_vars

-----------------------------------------------------------------------------
(* Properties *)

\* the text is empty or consists of whitespace only
IsBlank(text) == \A i \in 1..Len(text) : text[i] \in {" ", "\n", "\t"}

\* the last step of handleSubmit was the resumption after the fetch call
Settled == outcome.kind \in {"success", "RequestError"}

\* the fetch calls of the live instance that have not settled
LiveInflight == {r \in inflight : r.session = sid}

\* C1: a submit of non-blank text with a credential set appends exactly one
\* user turn at once and raises isLoading; when the upstream then answers
\* 2xx with reply R, exactly one assistant turn with content R follows it,
\* isLoading is false again and the transcript is two turns longer than
\* before the submit.
C1_SubmitThenReply ==
    /\ outcome.kind = "accepted" =>
          /\ messages = Append(outcome.before, Message("user", outcome.text))
          /\ isLoading
    /\ \A R \in ReplyTexts :
          Settled /\ outcome.response = OkResponse(ReplyBody(R)) =>
             /\ messages = outcome.before
                             \o << Message("user", outcome.text), Message("assistant", R) >>
             /\ Len(messages) = Len(outcome.before) + 2
             /\ ~isLoading

C1_Witness ==
    /\ outcome.kind = "success"
    /\ outcome.response = OkResponse(ReplyBody(Str("Hi there")))
    /\ outcome.text = <<" ", "b", "\n">>
    /\ Len(messages) = 3
    /\ ~isLoading

\* C2: when the request of an accepted submit fails upstream (the fetch call
\* rejects, or the response is not 2xx), the transcript is the one before the
\* submit plus the user turn, no assistant turn is added, isLoading is false
\* again, and an error message in the upstream body is the message of the
\* error toast.
C2_FailedRequest ==
    Settled /\ (outcome.response.settled = "rejected" \/ ~outcome.response.ok) =>
       /\ messages = Append(outcome.before, Message("user", outcome.text))
       /\ ~isLoading
       /\ \A m \in UpstreamErrorMessages :
             outcome.response = ErrorResponse(ErrorBody(m)) => toast = Toast("error", m)

C2_Witness ==
    /\ outcome.kind = "RequestError"
    /\ outcome.response = ErrorResponse(ErrorBody(Str("invalid key")))
    /\ toast = Toast("error", Str("invalid key"))
    /\ Len(messages) = 2
    /\ messages[2].role = "user"
    /\ ~isLoading

\* C3: no instance of the component ever has two fetch calls in flight.
C3_OneInFlight ==
    \A r1, r2 \in inflight : r1.session = r2.session => r1 = r2

\* a request is in flight and the user has typed the next message already
C3_Witness ==
    /\ Cardinality(LiveInflight) = 1
    /\ ~IsBlank(input)
    /\ ChatFormRendered

\* C4: the message list of a request is the persona's prompt as a system
\* message followed by the transcript as it stands right after the user turn
\* was appended.
C4_RequestCarriesTranscript ==
    outcome.kind = "accepted" =>
       /\ sent # <<>>
       /\ sent[Len(sent)].messages
            = << Message("system", personas[persona].prompt) >> \o messages
       /\ messages[Len(messages)] = Message("user", outcome.text)

\* the second request of an instance, after the first one failed
C4_Witness ==
    /\ outcome.kind = "accepted"
    /\ Len(sent) = 2
    /\ Len(messages) = 3
    /\ messages[2].role = "user"
    /\ messages[3].role = "user"
    /\ messages[2] # messages[3]

\* C5: an invocation of handleSubmit with a blank text changes neither the
\* transcript nor isLoading and issues no request.
C5_BlankSubmitNoEffect ==
    [][calls' # calls /\ IsBlank(input)
         => UNCHANGED <<messages, isLoading, inflight, sent>>]_vars

\* a whitespace-only text was submitted while a request was in flight
C5_Witness ==
    /\ outcome.kind = "ValidationError"
    /\ outcome.text = <<" ">>
    /\ isLoading
    /\ apiKey # EmptyString

\* C6: an invocation of handleSubmit with a non-blank text and no key set
\* changes neither the transcript nor isLoading and issues no request.
C6_NoCredentialNoEffect ==
    [][calls' # calls /\ ~IsBlank(input) /\ apiKey = EmptyString
         => UNCHANGED <<messages, isLoading, inflight, sent>>]_vars

C6_Witness ==
    /\ outcome.kind = "MissingCredentialError"
    /\ ~IsBlank(outcome.text)
    /\ apiKey = EmptyString
    /\ Len(messages) = 1
    /\ sent = <<>>

\* C7: a freshly mounted instance has a transcript of length 1, the opening
\* question of its persona as an assistant turn, and isLoading false.
C7_Create ==
    sid # 0 /\ log = <<>> =>
       /\ Len(messages) = 1
       /\ messages[1] = [role |-> "assistant", content |-> personas[persona].initialQuestion]
       /\ ~isLoading

\* the last persona of the registry, mounted while a request of the instance
\* before it is in flight
C7_Witness ==
    /\ sid = 2
    /\ persona = Len(personas)
    /\ log = <<>>
    /\ inflight # {}
    /\ messages = << Message("assistant",
                             Str("What specific expertise or experiences set you apart in your field?")) >>

\* the 2xx bodies without a reply text at choices[0].message.content
BodiesLackingReply == OkBodies \ {ReplyBody(R) : R \in ReplyTexts}

\* C8: a 2xx response whose body lacks the reply text at its path is a
\* failure: no assistant turn is appended, isLoading is false again and an
\* error is shown.
C8_MalformedBodyFails ==
    Settled /\ outcome.response.ok /\ outcome.response.data \in BodiesLackingReply =>
       /\ messages = Append(outcome.before, Message("user", outcome.text))
       /\ ~isLoading
       /\ outcome.kind = "RequestError"
       /\ toast.level = "error"

Roles(msgs) == [i \in 1..Len(msgs) |-> msgs[i].role]

\* C9: after two submissions in a row that both succeeded the transcript is
\* assistant, user, assistant, user, assistant in the order of submission,
\* and the second request carried the system prompt, the three turns of the
\* first exchange and the second user turn.
C9_TwoExchanges ==
    log = <<"accepted", "success", "accepted", "success">> =>
       /\ Roles(messages) = <<"assistant", "user", "assistant", "user", "assistant">>
       /\ messages[1].content = personas[persona].initialQuestion
       /\ Len(sent) = 2
       /\ messages[2] = Message("user", sent[1].text)
       /\ messages[4] = Message("user", sent[2].text)
       /\ sent[2].messages = << Message("system", personas[persona].prompt) >>
                               \o SubSeq(messages, 1, 3) \o << messages[4] >>

C9_Witness ==
    /\ log = <<"accepted", "success", "accepted", "success">>
    /\ Len(messages) = 5
    /\ messages[2] # messages[4]
    /\ messages[3] # messages[5]
    /\ Len(sent[2].messages) = 5

\* a click on Send that issues a request
SubmitIssuesRequest == ClickSend /\ Len(sent') = Len(sent) + 1 /\ inflight' # inflight

C11_SavedKeyLoaded ==
    sid # 0 =>
       /\ toast = Toast("success", Str("API key saved!")) => localStorage # NoItem
       /\ localStorage # NoItem =>
             /\ apiKey = localStorage
             /\ apiKey # EmptyString
             /\ ChatFormRendered
             /\ (~IsBlank(input) /\ ~isLoading /\ calls < MaxCalls)
                   => ENABLED SubmitIssuesRequest

\* the second instance, mounted after the first one saved a key, has issued
\* a request
C11_Witness ==
    /\ sid = 2
    /\ toast = Toast("success", Str("API key saved!"))
    /\ apiKey = <<"s", "k">>
    /\ log = <<"accepted">>
    /\ sent[1].bearer = <<"s", "k">>

ErrorKinds == {"ValidationError", "MissingCredentialError", "RequestError"}

\* C12 as claimed: every step of handleSubmit that ends in an error leaves
\* an error toast with a message on the screen.
C12_AllErrorsSurfaced ==
    [][outcome' # outcome /\ outcome'.kind \in ErrorKinds
         => toast'.level = "error" /\ toast'.message # EmptyString]_vars

\* C12 as amended: a missing key and a failed request leave an error toast
\* with a message on the screen; a blank text is turned down without a toast.
C12_ErrorsSurfaced ==
    [][outcome' # outcome =>
         /\ outcome'.kind = "MissingCredentialError" =>
               toast' = Toast("error", Str("Please enter your OpenAI API key first"))
         /\ outcome'.kind = "RequestError" =>
               toast'.level = "error" /\ toast'.message # EmptyString
         /\ outcome'.kind = "ValidationError" => toast' = toast]_vars

\* a request failed upstream with no message in the body, and the error
\* toast shows
C12_Witness ==
    /\ outcome.kind = "RequestError"
    /\ toast = Toast("error", Str("Failed to get response"))
    /\ localStorage # NoItem
    /\ showApiKeyInput = FALSE

\* C13: no two records of the registry share an id: the record an instance
\* was mounted with is the only one that has its id.
C13_UniqueIds ==
    /\ \A i, j \in PersonaIds : personas[i].id = personas[j].id => i = j
    /\ sid # 0 =>
          {i \in PersonaIds : personas[i].id = personas[persona].id} = {persona}

\* the instance is mounted with the record whose id is "hooksmith"
C13_Witness ==
    /\ sid # 0
    /\ personas[persona].id = "hooksmith"
    /\ messages[1].content = personas[3].initialQuestion

IsPrefix(a, b) == Len(a) <= Len(b) /\ SubSeq(b, 1, Len(a)) = a

\* C14: within an instance every step leaves the transcript as it was or
\* appends to it: no turn is removed, reordered or modified.
C14_AppendOnly ==
    [][sid' = sid => IsPrefix(messages, messages')]_vars

\* a failed submission followed by a successful one: the user turn of the
\* failed one is still in its place
C14_Witness ==
    /\ log = <<"accepted", "RequestError", "accepted", "success">>
    /\ Len(messages) = 4
    /\ messages[2] = Message("user", sent[1].text)
    /\ messages[3] = Message("user", sent[2].text)
    /\ messages[4].role = "assistant"

\* C15: the transcript of a mounted instance is never empty and its first
\* entry is the opening question of the instance's persona, as an assistant
\* turn.
C15_OpeningQuestionFirst ==
    sid # 0 =>
       /\ messages # <<>>
       /\ messages[1] = [role |-> "assistant",
                         content |-> personas[persona].initialQuestion]

\* after a failed and a successful submission, in the second instance
C15_Witness ==
    /\ sid = 2
    /\ log = <<"accepted", "RequestError", "accepted", "success">>
    /\ Len(messages) = 4
    /\ messages[1].content = personas[persona].initialQuestion

\* the failed requests that bring no upstream error message: a non-2xx body
\* without one, a non-2xx body that is not JSON, a fetch call that rejects
WithoutUpstreamMessage ==
    {ErrorResponse(b) : b \in ErrorBodies \ {ErrorBody(m) : m \in UpstreamErrorMessages}}
    \cup {NotJson(FALSE), Rejected}

\* the two generic texts of handleSubmit (lines 60 and 72)
GenericFailureMessages ==
    {Str("Failed to get response"), Str("Failed to get response. Please try again.")}

\* C16: when a request fails and brings no upstream error message, the error
\* toast shows the generic failure message.
C16_GenericMessage ==
    Settled /\ outcome.response \in WithoutUpstreamMessage =>
       /\ toast.level = "error"
       /\ toast.message \in GenericFailureMessages

Accepted(l) == Cardinality({i \in DOMAIN l : l[i] = "accepted"})

\* C17: only an invocation of handleSubmit issues a request, and it issues
\* one exactly when the submit is accepted; the settling of a request takes
\* it out of flight and issues nothing; the requests of an instance are as
\* many as its accepted submits.
C17_NoRetry ==
    [][/\ calls' = calls =>
             /\ inflight' \subseteq inflight
             /\ (sid' = sid /\ log' # log) =>
                   \A r \in inflight' : r.call # outcome'.call
       /\ calls' # calls =>
             /\ inflight \subseteq inflight'
             /\ Cardinality(inflight' \ inflight)
                  = (IF outcome'.kind = "accepted" THEN 1 ELSE 0)
       /\ Len(sent') = Accepted(log')]_vars

\* a request failed and nothing is in flight until the user submits again
C17_Witness ==
    /\ log = <<"accepted", "RequestError">>
    /\ inflight = {}
    /\ Len(sent) = 1
    /\ ~isLoading
    /\ ~IsBlank(input)

\* C18: when the transport settles every request, a raised isLoading is
\* lowered again in the end; and within an instance isLoading is lowered only
\* by the step in which a request of the instance settles, never by a timer.
C18_PendingEnds ==
    /\ isLoading ~> ~isLoading
    /\ [][(isLoading /\ ~isLoading' /\ sid' = sid)
            => \E r \in LiveInflight : r \notin inflight']_vars

\* isLoading was lowered by a 2xx response with a malformed body
C18_Witness ==
    /\ outcome.kind = "RequestError"
    /\ outcome.response = OkResponse([choices |-> << >>])
    /\ ~isLoading
    /\ inflight = {}

\* C19: isLoading is true exactly while a request of the live instance is
\* in flight.
C19_PendingIffInFlight ==
    isLoading <=> LiveInflight # {}

\* the request of the instance before has settled, the live instance has
\* its own request in flight, and isLoading is true
C19_Witness ==
    /\ sid = 2
    /\ calls = 2
    /\ Len(sent) = 1
    /\ inflight = LiveInflight
    /\ Cardinality(LiveInflight) = 1
    /\ isLoading

\* C20: the transcript never has two assistant turns in a row: each
\* assistant turn after the opening question directly follows a user turn;
\* two user turns in a row occur only after a failed submission.
C20_NoTwoAssistantTurns ==
    \A i \in 2..Len(messages) :
       /\ messages[i].role = "assistant" => messages[i - 1].role = "user"
       /\ (messages[i].role = "user" /\ messages[i - 1].role = "user")
             => \E k \in DOMAIN log : log[k] = "RequestError"

\* a failed submission, then a successful one: user, user, assistant
C20_Witness ==
    /\ Roles(messages) = <<"assistant", "user", "user", "assistant">>
    /\ log = <<"accepted", "RequestError", "accepted", "success">>
    /\ messages[3].content = outcome.text

====
